---- MODULE Spec2Model ----
(***************************************************************************)
(* State-machine model of SellTabContentProcess                            *)
(* (src/components/tabs/sell-tab-content/sell.process.tsx): the form       *)
(* state, the debounced snapshot, the quote effect with its in-flight      *)
(* receiveFor promises, and handleNext with its in-flight updateAccount    *)
(* and sendPayment promises.                                               *)
(*                                                                         *)
(* One action is one macrotask of the UI runtime: a user event, a prop     *)
(* change, a timer expiry or the settling of one promise, together with    *)
(* the re-render and the effects it triggers.  Object identity of a form   *)
(* snapshot (what the effect dependency arrays compare) is modelled by the *)
(* field ver, which every form mutation increments.                        *)
(***************************************************************************)
EXTENDS Integers, FiniteSets, Sequences, TLC

VARIABLES
    assetProp,          \* the asset prop handed in by the parent
    address,            \* useWalletContext().address
    form,               \* useWatch({control}): the live form values (data)
    debounced,          \* the value useDebounce(data, 500) returns
    customAmountError,  \* useState<string>()
    isLoading,          \* useState(false)
    isCompleting,       \* useState(false)
    isCompleted,        \* useState(false)
    kycRequired,        \* useState(false)
    paymentInfo,        \* useState<PaymentInformation>()
    inflight,           \* receiveFor promises not yet settled
    submissions,        \* handleNext invocations not yet settled
    submitCount,        \* number of handleNext invocations that passed the guard
    quoteSource,        \* the receiveFor arguments paymentInfo was fetched with
                        \* (observation only)
    lastEvent           \* the event handled by the last step (observation only)

vars == <<assetProp, address, form, debounced, customAmountError, isLoading,
          isCompleting, isCompleted, kycRequired, paymentInfo, inflight,
          submissions, submitCount, quoteSource, lastEvent>>

----------------------------------------------------------------------------
(* Bounds *)

\* form mutations (user edits and asset-prop changes) in one run
MaxEdits == 4
\* submissions started in one run
MaxSubmits == 2

----------------------------------------------------------------------------
(* Values *)

\* JavaScript undefined, for string-valued and for object-valued slots
U == "undefined"
Undefined == [undefined |-> TRUE]

Assets == {"BTC", "ETH"}
Currencies == {"EUR", "CHF"}
BankAccounts == {"b1", "b2"}
\* BankAccount.preferredCurrency: b1 declares one, b2 does not
preferredCurrency(b) == IF b = "b1" THEN "EUR" ELSE U
\* BankAccount.iban
iban(b) == IF b = "b1" THEN "DE89" ELSE "CH93"

\* what the amount input can hold
AmountStrings == {"", "0", "1"}

\* Number(s) of JavaScript: NaN for undefined and for non-numeric text, 0 for ''
NumberOf(s) ==
    CASE s = ""  -> [nan |-> FALSE, val |-> 0]
      [] s = "0" -> [nan |-> FALSE, val |-> 0]
      [] s = "1" -> [nan |-> FALSE, val |-> 1]
      [] OTHER   -> [nan |-> TRUE, val |-> 0]

\* a > b on JavaScript numbers: false as soon as one side is NaN
NumGT(a, b) == ~a.nan /\ ~b.nan /\ a.val > b.val

\* JavaScript truthiness of a string slot
Truthy(s) == s # U /\ s # ""

\* the Sell quotes receiveFor may resolve with
Sells ==
    { [estimatedAmount |-> 95, fee |-> 2, minFeeTarget |-> 0, minVolume |-> 1,
       paymentRequest |-> "pay:xyz"],
      [estimatedAmount |-> 95, fee |-> 2, minFeeTarget |-> 3, minVolume |-> 5,
       paymentRequest |-> U] }

\* the ApiErrors receiveFor may reject with
ApiErrors ==
    { [statusCode |-> 400, message |-> "Ident data incomplete"],
      [statusCode |-> 400, message |-> "Other"],
      [statusCode |-> 500, message |-> "Ident data incomplete"] }

----------------------------------------------------------------------------
(* Pure functions of the component *)

\* Utils.formatAmountCrypto: the number as display text
formatAmountCrypto(n) == ToString(n)

\* useFiat().toSymbol
toSymbol(c) == IF c = "EUR" THEN "EUR-sign" ELSE "Fr"

\* validateData: the snapshot itself when it is complete, undefined otherwise
validateData(data) ==
    IF /\ NumGT(NumberOf(data.amount), NumberOf("0"))
       /\ data.asset # U
       /\ data.bankAccount # U
       /\ data.currency # U
    THEN data
    ELSE Undefined

\* useDebounce(value, 500): the stored value, which follows the live value
\* only when the timer expires (action DebounceFire)
useDebounce(value, stored) == stored

\* validateData fed with the live form values instead of the debounced ones
validateUndebounced(data, stored) == validateData(data)

\* const validatedData = validateData(useDebounce(data, 500))
validatedDataAt(data, stored) == validateData(useDebounce(data, stored))

validatedData == validatedDataAt(form, debounced)

\* const dataValid = validatedData != null
dataValid == validatedData # Undefined

\* the debounce timer is pending: the live snapshot is newer than the stored one
timerArmed == form.ver # debounced.ver

\* receiveFor({iban, currency, amount, asset}): the arguments of the request
receiveForArgs(vd) ==
    [iban |-> iban(vd.bankAccount), currency |-> vd.currency,
     amount |-> NumberOf(vd.amount), asset |-> vd.asset]

\* checkForMinDeposit that sets the error but lets the quote through
checkForMinDepositKeepsQuote(sell, amount, currency) ==
    IF NumGT([nan |-> FALSE, val |-> sell.minVolume], amount)
    THEN [error |-> [text |-> "Entered amount is below minimum deposit of",
                     min |-> formatAmountCrypto(sell.minVolume),
                     name |-> currency],
          value |-> sell]
    ELSE [error |-> Undefined, value |-> sell]

\* checkForMinDeposit that also rejects an amount equal to the minimum
checkForMinDepositInclusive(sell, amount, currency) ==
    IF ~amount.nan /\ sell.minVolume >= amount.val
    THEN [error |-> [text |-> "Entered amount is below minimum deposit of",
                     min |-> formatAmountCrypto(sell.minVolume),
                     name |-> currency],
          value |-> Undefined]
    ELSE [error |-> Undefined, value |-> sell]

\* checkForMinDeposit: the quote that survives, and the error it sets
checkForMinDeposit(sell, amount, currency) ==
    IF NumGT([nan |-> FALSE, val |-> sell.minVolume], amount)
    THEN [error |-> [text |-> "Entered amount is below minimum deposit of",
                     min |-> formatAmountCrypto(sell.minVolume),
                     name |-> currency],
          value |-> Undefined]
    ELSE [error |-> Undefined, value |-> sell]

\* toPaymentInformation, with the data of the render whose effect issued the request
toPaymentInformation(sell, data) ==
    IF sell = Undefined THEN Undefined
    ELSE [estimatedAmount |->
              <<"~", ToString(sell.estimatedAmount),
                IF data.currency # U THEN data.currency ELSE "",
                "(incl. DFX fees)">>,
          fee |-> <<ToString(sell.fee), "%">>,
          minFee |-> IF sell.minFeeTarget > 0 /\ data.currency # U
                     THEN <<ToString(sell.minFeeTarget), toSymbol(data.currency)>>
                     ELSE <<>>,
          paymentRequest |-> IF sell.paymentRequest # U
                             THEN sell.paymentRequest ELSE ""]

\* the KYC flag with the eligibility result taken the wrong way round
kycAfterQuoteInverted(valid, allowed) == valid /\ allowed

\* setKycRequired(dataValid && !isAllowedToSell(Number(value?.estimatedAmount)))
kycAfterQuote(valid, allowed) == valid /\ ~allowed

\* which of the three screens the component returns
Phase ==
    IF isCompleting THEN "Completing"
    ELSE IF isCompleted THEN "Completed"
    ELSE "Entering"

\* the details block rendered without looking at kycRequired
DetailsRenderedIgnoringKyc == Phase = "Entering" /\ paymentInfo # Undefined

\* {paymentInfo && !kycRequired && (<> fee table, 'Complete transaction' button </>)}
DetailsRendered == Phase = "Entering" /\ paymentInfo # Undefined /\ ~kycRequired

\* {kycRequired && !customAmountError && <KycHint />}
KycHintRendered == Phase = "Entering" /\ kycRequired /\ customAmountError = Undefined

\* the guard of handleNext without the wallet address
handleNextGuardIgnoresAddress ==
    /\ validatedData # Undefined
    /\ Truthy(validatedData.amount)
    /\ Truthy(validatedData.asset)
    /\ paymentInfo # Undefined

\* the guard of handleNext
handleNextGuard ==
    /\ validatedData # Undefined
    /\ Truthy(validatedData.amount)
    /\ Truthy(validatedData.asset)
    /\ Truthy(address)
    /\ paymentInfo # Undefined

----------------------------------------------------------------------------
(* Initial state: after the first render and its mount effects.  The first  *)
(* render watches {asset}; the asset effect then sets amount to '' and so   *)
(* arms the debounce timer.                                                 *)

Init ==
    /\ assetProp \in {"BTC", U}
    /\ address \in {"addr", U}
    /\ form = [bankAccount |-> U, asset |-> assetProp, currency |-> U,
               amount |-> "", ver |-> 1]
    /\ debounced = [bankAccount |-> U, asset |-> assetProp, currency |-> U,
                    amount |-> U, ver |-> 0]
    /\ customAmountError = Undefined
    /\ isLoading = FALSE
    /\ isCompleting = FALSE
    /\ isCompleted = FALSE
    /\ kycRequired = FALSE
    /\ paymentInfo = Undefined
    /\ inflight = {}
    /\ submissions = {}
    /\ submitCount = 0
    /\ quoteSource = Undefined
    /\ lastEvent = [type |-> "mount"]

----------------------------------------------------------------------------
(* Effects *)

\* useEffect(..., [enteredAmount]): runs when the amount value changed
AmountEffect(oldAmount, newAmount, err, kyc) ==
    IF newAmount # oldAmount /\ ~Truthy(newAmount)
    THEN /\ customAmountError' = Undefined
         /\ kycRequired' = FALSE
    ELSE /\ customAmountError' = err
         /\ kycRequired' = kyc

\* useEffect(..., [validatedData]): runs when validatedData changed identity
\* from the render before (form, debounced) to the render after (f2, d2)
QuoteEffect(f2, d2) ==
    LET before == validatedDataAt(form, debounced)
        after == validatedDataAt(f2, d2)
    IN IF before = after
       THEN UNCHANGED <<paymentInfo, quoteSource, isLoading, inflight>>
       ELSE IF after = Undefined
       THEN /\ paymentInfo' = Undefined
            /\ quoteSource' = Undefined
            /\ UNCHANGED <<isLoading, inflight>>
       ELSE /\ isLoading' = TRUE
            /\ inflight' = inflight \cup {after}
            /\ UNCHANGED <<paymentInfo, quoteSource>>

\* a mutation of the form values: re-render, amount effect, quote effect
Mutate(f2) ==
    /\ form.ver <= MaxEdits
    /\ form' = [f2 EXCEPT !.ver = form.ver + 1]
    /\ debounced' = debounced
    /\ QuoteEffect([f2 EXCEPT !.ver = form.ver + 1], debounced)

----------------------------------------------------------------------------
(* Actions *)

\* the user types into the amount input
SetAmount(v) ==
    /\ Phase = "Entering"
    /\ v # form.amount
    /\ Mutate([form EXCEPT !.amount = v])
    /\ AmountEffect(form.amount, v, customAmountError, kycRequired)
    /\ lastEvent' = [type |-> "setAmount"]
    /\ UNCHANGED <<assetProp, address, isCompleting, isCompleted,
                   submissions, submitCount>>

\* the bank-account effect writing preferredCurrency even when there is none
SelectBankAccountAlwaysSyncs(b) ==
    /\ Phase = "Entering"
    /\ b # form.bankAccount
    /\ Mutate([form EXCEPT !.bankAccount = b,
                           !.currency = preferredCurrency(b)])
    /\ lastEvent' = [type |-> "selectBankAccount"]
    /\ UNCHANGED <<assetProp, address, customAmountError, kycRequired,
                   isCompleting, isCompleted, submissions, submitCount>>

\* the user picks a bank account; the bank-account effect syncs the currency
SelectBankAccount(b) ==
    /\ Phase = "Entering"
    /\ b # form.bankAccount
    /\ Mutate([form EXCEPT !.bankAccount = b,
                           !.currency = IF preferredCurrency(b) # U
                                        THEN preferredCurrency(b) ELSE @])
    /\ lastEvent' = [type |-> "selectBankAccount"]
    /\ UNCHANGED <<assetProp, address, customAmountError, kycRequired,
                   isCompleting, isCompleted, submissions, submitCount>>

\* the user picks a currency
SelectCurrency(c) ==
    /\ Phase = "Entering"
    /\ c # form.currency
    /\ Mutate([form EXCEPT !.currency = c])
    /\ lastEvent' = [type |-> "selectCurrency"]
    /\ UNCHANGED <<assetProp, address, customAmountError, kycRequired,
                   isCompleting, isCompleted, submissions, submitCount>>

\* observation only: the submissions in flight when the asset effect resets
\* the phase are marked; the code keeps no such mark and cancels nothing
MarkReset(subs) == {[s EXCEPT !.reset = TRUE] : s \in subs}

\* the asset effect without setIsCompleted(false)
AssetChangeKeepsCompleted(a) ==
    /\ a # assetProp
    /\ assetProp' = a
    /\ Mutate([form EXCEPT !.asset = IF a # U THEN a ELSE @, !.amount = ""])
    /\ AmountEffect(form.amount, "", customAmountError, kycRequired)
    /\ isCompleting' = FALSE
    /\ submissions' = MarkReset(submissions)
    /\ lastEvent' = [type |-> "assetChange", phaseBefore |-> Phase]
    /\ UNCHANGED <<address, isCompleted, submitCount>>

\* the parent hands in another asset: useEffect(..., [asset])
AssetChange(a) ==
    /\ a # assetProp
    /\ assetProp' = a
    /\ Mutate([form EXCEPT !.asset = IF a # U THEN a ELSE @, !.amount = ""])
    /\ AmountEffect(form.amount, "", customAmountError, kycRequired)
    /\ isCompleting' = FALSE
    /\ isCompleted' = FALSE
    /\ submissions' = MarkReset(submissions)
    /\ lastEvent' = [type |-> "assetChange", phaseBefore |-> Phase]
    /\ UNCHANGED <<address, submitCount>>

\* the 500ms quiet period has elapsed: the stored snapshot follows the live one
DebounceFire ==
    /\ timerArmed
    /\ debounced' = form
    /\ QuoteEffect(form, form)
    /\ lastEvent' = [type |-> "debounce",
                     coalesced |-> form.ver - debounced.ver]
    /\ UNCHANGED <<assetProp, address, form, customAmountError, isCompleting,
                   isCompleted, kycRequired, submissions, submitCount>>

\* receiveFor resolves: .then(checkForMinDeposit).then(setKycRequired)
\* (dataValid is the closure's, true in the render whose effect issued the request)
\* .then(toPaymentInformation).then(setPaymentInfo).finally(setIsLoading(false))
QuoteResolve(r, sell, allowed) ==
    /\ r \in inflight
    /\ LET amount == NumberOf(r.amount)
           checked == checkForMinDeposit(sell, amount, r.asset)
       IN /\ customAmountError' = checked.error
          /\ kycRequired' = kycAfterQuote(TRUE, allowed)
          /\ paymentInfo' = toPaymentInformation(checked.value, r)
          /\ quoteSource' = IF checked.value = Undefined THEN Undefined
                            ELSE receiveForArgs(r)
    /\ isLoading' = FALSE
    /\ inflight' = inflight \ {r}
    /\ lastEvent' = [type |-> "quoteResolved", request |-> r, sell |-> sell,
                     allowed |-> allowed]
    /\ UNCHANGED <<assetProp, address, form, debounced, isCompleting,
                   isCompleted, submissions, submitCount>>

\* a rejection that skips setIsLoading(false)
QuoteRejectKeepsLoading(r, error) ==
    /\ r \in inflight
    /\ kycRequired' = IF error.statusCode = 400
                         /\ error.message = "Ident data incomplete"
                      THEN TRUE ELSE kycRequired
    /\ inflight' = inflight \ {r}
    /\ lastEvent' = [type |-> "quoteRejected", request |-> r, error |-> error]
    /\ UNCHANGED <<assetProp, address, form, debounced, customAmountError,
                   isLoading, paymentInfo, quoteSource, isCompleting,
                   isCompleted,
                   submissions, submitCount>>

\* receiveFor rejects: .catch(...).finally(setIsLoading(false))
QuoteReject(r, error) ==
    /\ r \in inflight
    /\ kycRequired' = IF error.statusCode = 400
                         /\ error.message = "Ident data incomplete"
                      THEN TRUE ELSE kycRequired
    /\ isLoading' = FALSE
    /\ inflight' = inflight \ {r}
    /\ lastEvent' = [type |-> "quoteRejected", request |-> r, error |-> error]
    /\ UNCHANGED <<assetProp, address, form, debounced, customAmountError,
                   paymentInfo, quoteSource, isCompleting, isCompleted,
                   submissions,
                   submitCount>>

\* the user clicks 'Complete transaction': handleNext up to its first await
HandleNext ==
    /\ DetailsRendered
    /\ IF handleNextGuard
       THEN /\ submitCount < MaxSubmits
            /\ isCompleting' = TRUE
            /\ submitCount' = submitCount + 1
            /\ submissions' = submissions \cup
                   {[id |-> submitCount + 1, stage |-> "updateAccount",
                     paymentRequest |-> paymentInfo.paymentRequest,
                     bankAccount |-> form.bankAccount,
                     preferredCurrency |-> form.currency,
                     reset |-> FALSE,
                     quotedFor |-> quoteSource]}
            /\ lastEvent' = [type |-> "handleNext", started |-> TRUE]
       ELSE /\ lastEvent' = [type |-> "handleNext", started |-> FALSE]
            /\ UNCHANGED <<isCompleting, submitCount, submissions>>
    /\ UNCHANGED <<assetProp, address, form, debounced, customAmountError,
                   isLoading, isCompleted, kycRequired, paymentInfo, quoteSource,
                   inflight>>

\* handleNext going on to sendPayment although updateBankAccount() failed
UpdateAccountSettleIgnoresFailure(s, ok) ==
    /\ s \in submissions
    /\ s.stage = "updateAccount"
    /\ submissions' = (submissions \ {s}) \cup {[s EXCEPT !.stage = "sendPayment"]}
    /\ lastEvent' = [type |-> "updateAccountSettled", id |-> s.id, ok |-> ok]
    /\ UNCHANGED <<assetProp, address, form, debounced, customAmountError,
                   isLoading, isCompleting, isCompleted, kycRequired,
                   paymentInfo, quoteSource, inflight, submitCount>>

\* await updateBankAccount() settles: on success handleNext goes on to
\* sendPayment(paymentInfo.paymentRequest), on failure handleNext rejects
UpdateAccountSettle(s, ok) ==
    /\ s \in submissions
    /\ s.stage = "updateAccount"
    /\ submissions' = IF ok
                      THEN (submissions \ {s}) \cup {[s EXCEPT !.stage = "sendPayment"]}
                      ELSE submissions \ {s}
    /\ lastEvent' = [type |-> "updateAccountSettled", id |-> s.id, ok |-> ok]
    /\ UNCHANGED <<assetProp, address, form, debounced, customAmountError,
                   isLoading, isCompleting, isCompleted, kycRequired,
                   paymentInfo, quoteSource, inflight, submitCount>>

\* sendPayment settling with setIsCompleted(true) run on failure too
SendPaymentSettleAlwaysCompleted(s, ok) ==
    /\ s \in submissions
    /\ s.stage = "sendPayment"
    /\ isCompleted' = TRUE
    /\ isCompleting' = FALSE
    /\ submissions' = submissions \ {s}
    /\ lastEvent' = [type |-> "sendPaymentSettled", id |-> s.id, ok |-> ok,
                     phaseBefore |-> Phase]
    /\ UNCHANGED <<assetProp, address, form, debounced, customAmountError,
                   isLoading, kycRequired, paymentInfo, quoteSource, inflight,
                   submitCount>>

\* sendPayment settles: .then(() => setIsCompleted(true))
\* .finally(() => setIsCompleting(false))
SendPaymentSettle(s, ok) ==
    /\ s \in submissions
    /\ s.stage = "sendPayment"
    /\ isCompleted' = IF ok THEN TRUE ELSE isCompleted
    /\ isCompleting' = FALSE
    /\ submissions' = submissions \ {s}
    /\ lastEvent' = [type |-> "sendPaymentSettled", id |-> s.id, ok |-> ok,
                     phaseBefore |-> Phase]
    /\ UNCHANGED <<assetProp, address, form, debounced, customAmountError,
                   isLoading, kycRequired, paymentInfo, quoteSource, inflight,
                   submitCount>>

Next ==
    \/ \E v \in AmountStrings : SetAmount(v)
    \/ \E b \in BankAccounts : SelectBankAccount(b)
    \/ \E c \in Currencies : SelectCurrency(c)
    \/ \E a \in Assets \cup {U} : AssetChange(a)
    \/ DebounceFire
    \/ \E r \in inflight, sell \in Sells, allowed \in BOOLEAN :
           QuoteResolve(r, sell, allowed)
    \/ \E r \in inflight, error \in ApiErrors : QuoteReject(r, error)
    \/ HandleNext
    \/ \E s \in submissions, ok \in BOOLEAN : UpdateAccountSettle(s, ok)
    \/ \E s \in submissions, ok \in BOOLEAN : SendPaymentSettle(s, ok)

Spec == Init /\ [][Next]_vars

----------------------------------------------------------------------------
(* Properties *)

\* the amount a settled quote request was issued for
RequestedAmount(r) == NumberOf(r.amount)

\* the last step resolved a quote whose minVolume exceeds the requested amount
ResolvedBelowMin ==
    /\ lastEvent.type = "quoteResolved"
    /\ NumGT([nan |-> FALSE, val |-> lastEvent.sell.minVolume],
             RequestedAmount(lastEvent.request))

\* the last step resolved a quote that passes the minimum-deposit check
ResolvedAboveMin ==
    /\ lastEvent.type = "quoteResolved"
    /\ ~NumGT([nan |-> FALSE, val |-> lastEvent.sell.minVolume],
              RequestedAmount(lastEvent.request))

\* the last step rejected a quote request with 400 / 'Ident data incomplete'
RejectedIdentIncomplete ==
    /\ lastEvent.type = "quoteRejected"
    /\ lastEvent.error.statusCode = 400
    /\ lastEvent.error.message = "Ident data incomplete"

\* C1 as stated: paymentInfo is present only if ValidatedData is non-null, no
\* minimum-deposit error is set and kycRequired is false.
C1_PaymentInfoOnlyIfValidNoErrorNoKyc ==
    paymentInfo # Undefined =>
        /\ validatedData # Undefined
        /\ customAmountError = Undefined
        /\ ~kycRequired

\* C1 amended: paymentInfo is present only if no minimum-deposit error is set
\* (it may be present while kycRequired is true or ValidatedData is null).
C1_PaymentInfoOnlyIfNoAmountError ==
    paymentInfo # Undefined => customAmountError = Undefined

\* C1 witness: paymentInfo present, no amount error, while kycRequired is true
\* and ValidatedData is null
C1_Witness ==
    /\ paymentInfo # Undefined
    /\ customAmountError = Undefined
    /\ kycRequired
    /\ validatedData = Undefined

\* C2: a submission starts only in phase Entering with ValidatedData non-null,
\* paymentInfo present and kycRequired false.
C2_SubmissionStartsOnlyWhenReady ==
    [][submitCount' # submitCount =>
          /\ Phase = "Entering"
          /\ validatedData # Undefined
          /\ paymentInfo # Undefined
          /\ ~kycRequired]_vars

\* C2 witness: handleNext has passed its guard and entered Completing
C2_Witness ==
    /\ lastEvent.type = "handleNext"
    /\ lastEvent.started
    /\ isCompleting
    /\ \E s \in submissions : s.stage = "updateAccount"

\* C3 as stated: whenever the debounced snapshot becomes one that validateData
\* rejects, no quote request is issued and paymentInfo is cleared.
C3_InvalidSnapshotClearsPaymentInfo ==
    [][(debounced' # debounced /\ validateData(debounced') = Undefined) =>
          /\ inflight' = inflight
          /\ paymentInfo' = Undefined]_vars

\* C4: a quote request is issued only by the expiry of the quiet period, one
\* per expiry and for the last snapshot; form mutations inside the window
\* issue none.
C4_DebounceCoalescing ==
    [][inflight' \ inflight # {} =>
          /\ timerArmed
          /\ form' = form
          /\ debounced' = form
          /\ inflight' \ inflight = {form}]_vars

\* C4 witness: three or more mutations coalesced into one expiry that issued
\* the one request, for the last snapshot
C4_Witness ==
    /\ lastEvent.type = "debounce"
    /\ lastEvent.coalesced >= 3
    /\ inflight = {form}

\* C5: after a quote resolved with minVolume above the requested amount,
\* paymentInfo is absent and customAmountError is the minimum-deposit message
\* with the formatted minVolume and the name; otherwise customAmountError is
\* cleared.
C5_MinDeposit ==
    /\ ResolvedBelowMin =>
          /\ paymentInfo = Undefined
          /\ customAmountError =
                 [text |-> "Entered amount is below minimum deposit of",
                  min |-> formatAmountCrypto(lastEvent.sell.minVolume),
                  name |-> lastEvent.request.asset]
    /\ ResolvedAboveMin => customAmountError = Undefined

\* C5 witness: a quote with minVolume 5 resolved for the amount 1
C5_Witness ==
    /\ ResolvedBelowMin
    /\ lastEvent.request.amount = "1"
    /\ customAmountError # Undefined
    /\ customAmountError.min = "5"

\* C6: after a quote that passes the minimum-deposit check resolved with the
\* eligibility check false, kycRequired is true, paymentInfo is stored, and
\* the details and the button are not rendered.
C6_KycBlocksRendering ==
    (ResolvedAboveMin /\ ~lastEvent.allowed) =>
        /\ kycRequired
        /\ paymentInfo # Undefined
        /\ paymentInfo = toPaymentInformation(lastEvent.sell, lastEvent.request)
        /\ ~DetailsRendered

\* C6 witness: such a quote resolved while the form is shown
C6_Witness ==
    /\ ResolvedAboveMin
    /\ ~lastEvent.allowed
    /\ Phase = "Entering"
    /\ KycHintRendered

\* C7 as stated: every asset change empties the amount, overwrites the asset
\* field with the new asset and leaves the phase Entering.
C7_AssetChangeOverwritesAsset ==
    [][assetProp' # assetProp =>
          /\ form'.amount = ""
          /\ form'.asset = assetProp'
          /\ ~isCompleting' /\ ~isCompleted']_vars

\* C7 amended: every asset change empties the amount, overwrites the asset
\* field with the new asset when that is defined (keeps it otherwise) and
\* leaves the phase Entering.
C7_AssetChangeResets ==
    [][assetProp' # assetProp =>
          /\ form'.amount = ""
          /\ form'.asset = (IF assetProp' # U THEN assetProp' ELSE form.asset)
          /\ ~isCompleting' /\ ~isCompleted']_vars

\* C7 witness: an asset change in phase Completed has reset the screen
C7_Witness ==
    /\ lastEvent.type = "assetChange"
    /\ lastEvent.phaseBefore = "Completed"
    /\ Phase = "Entering"
    /\ form.amount = ""
    /\ form.asset = assetProp

\* C8 as stated: the phase only moves Entering -> Completing -> Completed,
\* and back to Entering only by an asset change.
C8_PhaseOnlyForward ==
    [][Phase' # Phase =>
          \/ Phase = "Entering" /\ Phase' = "Completing"
          \/ Phase = "Completing" /\ Phase' = "Completed"
          \/ Phase' = "Entering" /\ assetProp' # assetProp]_vars

\* C8 amended: the phase moves to Completing when a submission starts, to
\* Completed when a payment send resolves, and back to Entering only by an
\* asset change or, from Completing, by a rejected payment send.
C8_PhaseTransitions ==
    [][Phase' # Phase =>
          \/ /\ Phase = "Entering" /\ Phase' = "Completing"
             /\ submitCount' = submitCount + 1
          \/ /\ Phase # "Completed" /\ Phase' = "Completed"
             /\ lastEvent'.type = "sendPaymentSettled" /\ lastEvent'.ok
          \/ /\ Phase' = "Entering" /\ assetProp' # assetProp
          \/ /\ Phase = "Completing" /\ Phase' = "Entering"
             /\ lastEvent'.type = "sendPaymentSettled" /\ ~lastEvent'.ok]_vars

\* C8 witness: a rejected payment send has moved the phase from Completing
\* back to Entering
C8_Witness ==
    /\ lastEvent.type = "sendPaymentSettled"
    /\ ~lastEvent.ok
    /\ lastEvent.phaseBefore = "Completing"
    /\ Phase = "Entering"

\* C9 as stated: after a rejection with 400 / 'Ident data incomplete',
\* kycRequired is true, paymentInfo is absent and no amount error is shown.
C9_IdentIncompleteLeavesOnlyKyc ==
    RejectedIdentIncomplete =>
        /\ kycRequired
        /\ paymentInfo = Undefined
        /\ customAmountError = Undefined

\* C10 as stated: once the external calls of every started submission have
\* settled, the screen has left the Completing phase.
C10_CompletingEndsWhenCallsSettle ==
    submissions = {} => ~isCompleting

\* C11 as stated: after an asset-change reset the phase leaves Entering only
\* by a new submission, and a submission that was in flight at the reset
\* does not go on to send its payment.
C11_ResetCancelsSubmission ==
    [][/\ (Phase = "Entering" /\ Phase' # "Entering") =>
              submitCount' = submitCount + 1
       /\ \A s \in submissions :
              (s.reset /\ s.stage = "updateAccount") =>
                  [s EXCEPT !.stage = "sendPayment"] \notin submissions']_vars

\* the last step settled a quote request
QuoteSettled == lastEvent.type \in {"quoteResolved", "quoteRejected"}

\* C12 as stated: when the second of two overlapping quote requests settles
\* right after the first, paymentInfo and kycRequired are those the second
\* settlement determines (for a rejection: no paymentInfo, and kycRequired
\* for 'Ident data incomplete'); settling removes only the settled request.
C12_LastSettledWins ==
    [][(QuoteSettled /\ Cardinality(inflight) = 1 /\ inflight' = {}) =>
          IF lastEvent'.type = "quoteResolved"
          THEN /\ paymentInfo' =
                      toPaymentInformation(
                          checkForMinDeposit(lastEvent'.sell,
                                             RequestedAmount(lastEvent'.request),
                                             lastEvent'.request.asset).value,
                          lastEvent'.request)
               /\ kycRequired' = ~lastEvent'.allowed
          ELSE /\ paymentInfo' = Undefined
               /\ (lastEvent'.error.statusCode = 400
                   /\ lastEvent'.error.message = "Ident data incomplete")
                      => kycRequired']_vars

\* C13: a submission starts in stage updateAccount holding the paymentRequest
\* of the paymentInfo present at that moment; sendPayment is invoked for it
\* only when its account update resolved, with that same paymentRequest, and
\* a failed account update ends the submission without a send.
C13_SendAfterAccountUpdate ==
    [][/\ \A s \in submissions' :
              s.stage = "updateAccount" =>
                  \/ \E t \in submissions : t.id = s.id /\ t.stage = "updateAccount"
                  \/ /\ submitCount' = submitCount + 1
                     /\ s.id = submitCount'
                     /\ s.paymentRequest = paymentInfo.paymentRequest
       /\ \A s \in submissions' :
              s.stage = "sendPayment" =>
                  \/ \E t \in submissions :
                         /\ t.id = s.id /\ t.stage = "sendPayment"
                         /\ t.paymentRequest = s.paymentRequest
                  \/ /\ \E t \in submissions :
                            /\ t.id = s.id /\ t.stage = "updateAccount"
                            /\ t.paymentRequest = s.paymentRequest
                     /\ lastEvent'.type = "updateAccountSettled"
                     /\ lastEvent'.ok
                     /\ lastEvent'.id = s.id
       /\ Cardinality({s.id : s \in submissions'}) = Cardinality(submissions')]_vars

\* C13 witness: a payment send is under way with the paymentRequest taken at
\* the start of the submission, although paymentInfo has changed since
C13_Witness ==
    \E s \in submissions :
        /\ s.stage = "sendPayment"
        /\ s.paymentRequest = "pay:xyz"
        /\ paymentInfo = Undefined

\* a precondition of submit fails: no ValidatedData, its amount or asset
\* missing, no wallet address, or no paymentInfo
SubmitPreconditionFails ==
    \/ debounced.amount \in {U, ""}
    \/ ~NumGT(NumberOf(debounced.amount), NumberOf("0"))
    \/ debounced.asset = U
    \/ debounced.bankAccount = U
    \/ debounced.currency = U
    \/ address \in {U, ""}
    \/ paymentInfo = Undefined

\* C14: a click on 'Complete transaction' while a precondition fails changes
\* no state and starts no updateAccount or sendPayment call.
C14_SubmitNoOp ==
    [][(lastEvent'.type = "handleNext" /\ SubmitPreconditionFails) =>
          /\ ~lastEvent'.started
          /\ UNCHANGED <<assetProp, address, form, debounced,
                         customAmountError, isLoading, isCompleting,
                         isCompleted, kycRequired, paymentInfo, quoteSource,
                         inflight,
                         submissions, submitCount>>]_vars

\* C14 witness: the button was clicked without a wallet address and nothing
\* was started
C14_Witness ==
    /\ lastEvent.type = "handleNext"
    /\ ~lastEvent.started
    /\ address = U
    /\ validatedData # Undefined
    /\ paymentInfo # Undefined
    /\ ~isCompleting
    /\ submissions = {}

\* C15 as stated: the resolution of a quote that is discarded because its
\* minVolume exceeds the requested amount leaves kycRequired unchanged.
C15_DiscardedQuoteLeavesKyc ==
    [][(/\ lastEvent'.type = "quoteResolved"
        /\ lastEvent' # lastEvent
        /\ NumGT([nan |-> FALSE, val |-> lastEvent'.sell.minVolume],
                 RequestedAmount(lastEvent'.request))) =>
          kycRequired' = kycRequired]_vars

\* C16 as stated: when the amount becomes empty customAmountError and
\* kycRequired are cleared, and while the amount stays empty they do not
\* come back.
C16_ClearedWhileAmountEmpty ==
    [][/\ (form.amount # "" /\ form'.amount = "") =>
              (customAmountError' = Undefined /\ ~kycRequired')
       /\ (form.amount = "" /\ form'.amount = "") =>
              /\ customAmountError = Undefined => customAmountError' = Undefined
              /\ ~kycRequired => ~kycRequired']_vars

\* C17: selecting another bank account sets the currency to its preferred
\* currency if it declares one and leaves the currency unchanged otherwise;
\* while the selected bank account stays the same the currency changes only
\* by the user's own choice.
C17_PreferredCurrencySync ==
    [][/\ form'.bankAccount # form.bankAccount =>
              form'.currency =
                  (IF form'.bankAccount = "b1" THEN "EUR" ELSE form.currency)
       /\ (form'.bankAccount = form.bankAccount
           /\ form'.currency # form.currency) =>
              lastEvent'.type = "selectCurrency"]_vars

\* C17 witness: the currency chosen by hand after selecting the bank account
\* with preferred currency EUR is still there after a later edit
C17_Witness ==
    /\ form.bankAccount = "b1"
    /\ form.currency = "CHF"
    /\ lastEvent.type = "setAmount"

\* C18: loading is true right after a quote request was issued, false right
\* after one settled (resolved or rejected), and false once no issued
\* request is outstanding.
C18_LoadingFollowsRequests ==
    /\ (lastEvent.type = "debounce" /\ validatedData # Undefined) =>
           (isLoading /\ debounced \in inflight)
    /\ QuoteSettled => ~isLoading
    /\ inflight = {} => ~isLoading

\* C18 witness: the only outstanding request was rejected with an error
\* other than 'Ident data incomplete' and loading is false
C18_Witness ==
    /\ lastEvent.type = "quoteRejected"
    /\ lastEvent.error.message = "Other"
    /\ inflight = {}
    /\ ~isLoading

\* C19 as stated: whenever sendPayment is invoked, the paymentRequest it
\* sends comes from a quote fetched for the form contents of that moment.
C19_SentQuoteMatchesForm ==
    [][\A s \in submissions :
          (/\ s.stage = "updateAccount"
           /\ lastEvent'.type = "updateAccountSettled"
           /\ lastEvent'.ok
           /\ lastEvent'.id = s.id) =>
              /\ validateData(form) # Undefined
              /\ s.quotedFor = receiveForArgs(form)]_vars

\* C20 as stated: at most one submission is in flight at any time.
C20_OneSubmissionInFlight == Cardinality(submissions) <= 1

====
